---- MODULE Spec2Model ----
(***************************************************************************)
(* A model of the row-generation and line-rendering engine of hexd         *)
(* (src/src/lib.rs): HexdumpLineIterator, ElisionMatch and                 *)
(* HexdumpLineWriter, reading from a ByteSliceReader (src/src/reader.rs).  *)
(* Characters are modelled by their ASCII codes.                           *)
(*                                                                         *)
(* Option<T> is modelled as a sequence of length at most one:              *)
(* <<>> is None and <<x>> is Some(x).                                      *)
(***************************************************************************)
EXTENDS Integers, Sequences, FiniteSets, TLC

VARIABLES
    slice,          \* ByteSliceReader.slice: the byte stream
    options,        \* HexdOptions: grouping, align, autoskip, print_range, index_offset, flush,
                    \* base, uppercase
    read_fail,      \* the byte source: Some(k) when its k-th call returns Err, None when none does
    rd_index,       \* ByteSliceReader.index
    index,          \* HexdumpLineIterator.index (the logical read cursor)
    state,          \* HexdumpLineIterator.state
    elision_match,  \* HexdumpLineIterator.elision_match : Option<buffer>
    elided_row,     \* HexdumpLineWriter.elided_row : Option<(RowBuffer, usize)>
    i,              \* the loop counter i of do_hexdump_internal
    flush_idx,      \* HexdumpLineWriter.flush_idx
    out,            \* the lines written to the sink (WriteHexdump::write_line), in order
    flushes,        \* for every call of the sink's flush: the number of lines written before it
    pc,             \* position of do_hexdump: "loop", "done", "panicked"
    result,         \* the value do_hexdump returned: None before it returns
    events,         \* history: what every pull of the row iterator yielded
    reads,          \* history: the calls of next_n / skip_n on the byte source
    st_trace,       \* history: the values assigned to state during the last pull
    idle,           \* history: number of pulls made after do_hexdump returned
    reader,         \* the type of the byte source of the dump
    sink_fail,      \* the sink: Some([at, error]) when its at-th call returns Err(error)
    sink_calls,     \* history: number of calls of write_line and flush made on the sink
    elts,           \* the elements of the grouped readers: each a sequence of 16-bit limbs
    endianness,     \* the byte order of the grouped readers
    sources,        \* the byte sources under test, by type: the state of each reader
    discards,       \* the same sources, skipped by the default skip_n of the trait
    calls           \* history: the calls made on the sources and what each returned

dump_vars == << slice, options, read_fail, rd_index, index, state, elision_match, elided_row, i,
                flush_idx, out, flushes, pc, result, events, reads, st_trace, idle,
                reader, sink_fail, sink_calls >>

source_vars == << elts, endianness, sources, discards, calls >>

vars == << dump_vars, source_vars >>

----------------------------------------------------------------------------
(* Bounds of the model *)

MaxLen == 6          \* longest byte stream over the two byte values
MaxPos == 7          \* longest byte stream whose bytes are their own offsets
MaxShort == 3        \* longest byte stream of the dumps that vary the sub-range
MaxElideSkip == 1    \* largest print_range.skip of the dumps with autoskip enabled
MaxSkip == 3         \* largest print_range.skip
MaxRange == 4        \* largest print_range.limit - print_range.skip
MaxOffset == 1       \* largest index offset
MaxIdle == 2         \* pulls of the row iterator after the dump has ended
MaxFail == 3         \* latest call on the byte source that returns Err
MaxWide == 64        \* widest row, and longest stream, of the dumps with wide rows
MaxHexOffset == 43981  \* largest index offset of the dumps that print letters: 0xABCD
MaxFlushN == 3       \* largest n of FlushMode::AfterNLines(n)
MaxElts == 3         \* longest sequence of integers read by the grouped readers
MaxBeyond == 2       \* largest number of bytes skip_n is asked to skip beyond the end
MaxRead == 3         \* longest buffer handed to next_n on the byte sources under test
MaxCalls == 3        \* calls made on each byte source under test
MaxWideOffset == 268435456  \* largest index offset of the dumps of integers: 0x10000000
MaxSinkFail == 5     \* latest call on the sink that returns Err

\* two byte values: 0x00 (not printable) and 0x41 'A' (printable)
Bytes == {0, 65}

\* every value of a u8
AllBytes == 0..255

None == << >>
Some(x) == << x >>
IsSome(o) == Len(o) = 1
Unwrap(o) == o[1]

Min(a, b) == IF a < b THEN a ELSE b
Max(a, b) == IF a > b THEN a ELSE b

----------------------------------------------------------------------------
(* options.rs *)

element_count(group_size) ==
    CASE group_size = "Byte" -> 1
      [] group_size = "Short" -> 2
      [] group_size = "Int" -> 4
      [] group_size = "Long" -> 8
      [] group_size = "ULong" -> 16

\* Grouping::Ungrouped { byte_count, spacing }
UngroupedSp(n, sp) == [kind |-> "Ungrouped", byte_count |-> n, spacing |-> sp]

\* Grouping::Grouped { group_size, byte_spacing, num_groups, group_spacing }
GroupedSp(gs, bsp, n, gsp) ==
    [kind |-> "Grouped", group_size |-> gs, byte_spacing |-> bsp,
     num_groups |-> n, group_spacing |-> gsp]

\* the spacings of HexdOptionsBuilder::ungrouped(n, Spacing::Normal) and of Grouping::default
Ungrouped(n) == UngroupedSp(n, "Normal")
Grouped(gs, n) == GroupedSp(gs, "None", n, "Normal")

\* Spacing::as_spaces
as_spaces(sp) ==
    CASE sp = "None" -> << >>
      [] sp = "Normal" -> << 32 >>
      [] sp = "Wide" -> << 32, 32 >>
      [] sp = "UltraWide" -> << 32, 32, 32, 32 >>

\* spacing_for_index with the group spacing put after the first byte of a group
spacing_for_index_first(g, idx) ==
    IF g.kind = "Ungrouped"
    THEN g.spacing
    ELSE LET elt_count == element_count(g.group_size)
         IN  IF idx % elt_count = 0 THEN g.group_spacing ELSE g.byte_spacing

\* Grouping::spacing_for_index
spacing_for_index(g, idx) ==
    IF g.kind = "Ungrouped"
    THEN g.spacing
    ELSE LET elt_count == element_count(g.group_size)
         IN  IF idx % elt_count = elt_count - 1 THEN g.group_spacing ELSE g.byte_spacing

\* Base
Hex == [kind |-> "Hex"]
Binary == [kind |-> "Binary"]
Decimal(lzc) == [kind |-> "Decimal", lzc |-> lzc]
Octal(lzc) == [kind |-> "Octal", lzc |-> lzc]

\* From<LeadingZeroChar> for u8
lead_char(lzc) ==
    CASE lzc = "Space" -> 32
      [] lzc = "Underscore" -> 95
      [] lzc = "Zero" -> 48

elt_width(o) ==
    IF o.grouping.kind = "Ungrouped"
    THEN o.grouping.byte_count
    ELSE element_count(o.grouping.group_size) * o.grouping.num_groups

\* HexdRange::length
length(o) ==
    IF IsSome(o.limit) THEN Some(Unwrap(o.limit) - o.skip) ELSE None

----------------------------------------------------------------------------
(* reader.rs: ByteSliceReader *)

\* ByteSliceReader::next_n with a buffer of n bytes: the bytes returned
next_n(sl, ri, n) ==
    IF ri >= Len(sl)
    THEN << >>
    ELSE LET end == Min(ri + n, Len(sl)) - ri
         IN  SubSeq(sl, ri + 1, ri + end)

\* ByteSliceReader::skip_n: the reader's index afterwards
skip_n(ri, n) == ri + n

----------------------------------------------------------------------------
(* reader.rs: the byte sources; every reader is a record r with its fields  *)
(* and r.panicked, set when one of its calls has panicked                   *)

\* the bytes of an integer, most significant first; an integer of byte width N
\* is written as its N / 2 limbs of 16 bits, most significant first
RECURSIVE be_bytes(_)
be_bytes(u) ==
    IF u = << >> THEN << >>
    ELSE << Head(u) \div 256, Head(u) % 256 >> \o be_bytes(Tail(u))

Reverse(s) == [k \in 1..Len(s) |-> s[Len(s) + 1 - k]]

\* EndianBytes::to_bytes: to_be_bytes or to_le_bytes
to_bytes(u, end) == IF end = "Big" THEN be_bytes(u) ELSE Reverse(be_bytes(u))

\* ByteSliceReader::new
ByteSliceReader(sl) ==
    [kind |-> "ByteSliceReader", slice |-> sl, index |-> 0, panicked |-> FALSE]

\* slice[k].to_bytes(endianness) when k < slice.len()
elt_at(r, k) ==
    IF k < Len(r.slice) THEN Some(to_bytes(r.slice[k + 1], r.endianness)) ELSE None

\* GroupedSliceByteReader::new over elements of n bytes
GroupedSliceByteReader(sl, n, end) ==
    [kind |-> "GroupedSliceByteReader", slice |-> sl, N |-> n, endianness |-> end,
     elt_index |-> 0, u_index |-> 0,
     current_elt |-> IF Len(sl) > 0 THEN Some(to_bytes(sl[1], end)) ELSE None,
     panicked |-> FALSE]

\* GroupedSliceByteReader::advance_indices
advance_indices(r) ==
    IF r.u_index + 1 >= r.N
    THEN [r EXCEPT !.u_index = 0, !.elt_index = @ + 1,
                   !.current_elt = elt_at(r, r.elt_index + 1)]
    ELSE [r EXCEPT !.u_index = @ + 1]

\* GroupedSliceByteReader::next_byte: ce[self.u_index] panics when u_index is out of bounds
slice_next_byte(r) ==
    IF IsSome(r.current_elt) /\ r.u_index >= r.N
    THEN [r |-> [r EXCEPT !.panicked = TRUE], o |-> None]
    ELSE [r |-> advance_indices(r),
          o |-> IF IsSome(r.current_elt)
                THEN Some(Unwrap(r.current_elt)[r.u_index + 1]) ELSE None]

\* GroupedSliceByteReader::next_bytes with a buffer of n bytes: the loop over
\* next_byte, run as its first n / 2 and its other iterations; ended is set when
\* next_byte returned None, which ends the loop
RECURSIVE next_bytes(_, _)
next_bytes(r, n) ==
    IF n = 0 THEN [r |-> r, bytes |-> << >>, ended |-> FALSE]
    ELSE IF n = 1
    THEN LET b == slice_next_byte(r)
         IN  [r |-> b.r, bytes |-> b.o, ended |-> ~IsSome(b.o)]
    ELSE LET h == next_bytes(r, n \div 2)
         IN  IF h.ended THEN h
             ELSE LET t == next_bytes(h.r, n - n \div 2)
                  IN  [r |-> t.r, bytes |-> h.bytes \o t.bytes, ended |-> t.ended]

\* the while loop of advance_indices_by
RECURSIVE advance_whole_elts(_, _)
advance_whole_elts(r, adv) ==
    IF adv > r.N
    THEN advance_whole_elts([r EXCEPT !.u_index = 0, !.elt_index = @ + 1], adv - r.N)
    ELSE [r |-> r, adv |-> adv]

\* GroupedSliceByteReader::advance_indices_by; the subtraction adv -= N - u_index
\* overflows when adv < N - u_index, which panics
advance_indices_by(r, adv) ==
    IF r.N = 1
    THEN [r EXCEPT !.elt_index = adv, !.u_index = 0, !.current_elt = elt_at(r, adv)]
    ELSE IF r.u_index > 0 /\ adv < r.N - r.u_index
    THEN [r EXCEPT !.panicked = TRUE]
    ELSE
    LET r1 == IF r.u_index > 0
              THEN [r EXCEPT !.u_index = 0, !.elt_index = @ + 1]
              ELSE r
        adv1 == IF r.u_index > 0 THEN adv - (r.N - r.u_index) ELSE adv
        l == advance_whole_elts(r1, adv1)
        r2 == [l.r EXCEPT !.current_elt = elt_at(l.r, l.r.elt_index)]
    IN  IF l.adv > 0 THEN [r2 EXCEPT !.u_index = l.adv] ELSE r2

\* IteratorByteReader::new over an iterator that yields the bytes of it
IteratorByteReader(it) ==
    [kind |-> "IteratorByteReader", iterator |-> it, panicked |-> FALSE]

\* Iterator::next of the element iterator of r, as bytes
iterator_next(r) ==
    IF r.iterator = << >> THEN None ELSE Some(to_bytes(Head(r.iterator), r.endianness))

\* GroupedIteratorReader::new over an iterator that yields the elements of it
GroupedIteratorReader(it, n, end) ==
    [kind |-> "GroupedIteratorReader", N |-> n, endianness |-> end,
     iterator |-> IF it = << >> THEN << >> ELSE Tail(it),
     current |-> IF it = << >> THEN None ELSE Some(to_bytes(Head(it), end)),
     index |-> 0, panicked |-> FALSE]

\* GroupedIteratorReader::next_byte
next_byte(r) ==
    [r |-> IF r.index + 1 >= r.N
           THEN [r EXCEPT !.index = 0, !.current = iterator_next(r),
                          !.iterator = IF @ = << >> THEN << >> ELSE Tail(@)]
           ELSE [r EXCEPT !.index = @ + 1],
     o |-> IF IsSome(r.current) THEN Some(Unwrap(r.current)[r.index + 1]) ELSE None]

\* GroupedIteratorReader::next_n with a buffer of n bytes: the loop over next_byte,
\* run as its first n / 2 and its other iterations; ended is set when next_byte
\* returned None, which ends the loop
RECURSIVE iterator_next_n(_, _)
iterator_next_n(r, n) ==
    IF n = 0 THEN [r |-> r, bytes |-> << >>, ended |-> FALSE]
    ELSE IF n = 1
    THEN LET b == next_byte(r)
         IN  [r |-> b.r, bytes |-> b.o, ended |-> ~IsSome(b.o)]
    ELSE LET h == iterator_next_n(r, n \div 2)
         IN  IF h.ended THEN h
             ELSE LET t == iterator_next_n(h.r, n - n \div 2)
                  IN  [r |-> t.r, bytes |-> h.bytes \o t.bytes, ended |-> t.ended]

\* the loop of GroupedIteratorReader::skip_n, which calls next_byte until it
\* returns None, n times at most: the reader afterwards
iterator_skip(r, n) == iterator_next_n(r, n).r

\* ReadBytes::next_n of the reader r with a buffer of n bytes: the reader afterwards
\* and the bytes returned
read_next_n(r, n) ==
    CASE r.kind = "ByteSliceReader" ->
            LET bytes == next_n(r.slice, r.index, n)
            IN  [r |-> [r EXCEPT !.index = @ + Len(bytes)], bytes |-> bytes]
      [] r.kind = "GroupedSliceByteReader" -> next_bytes(r, n)
      [] r.kind = "IteratorByteReader" ->
            LET k == Min(n, Len(r.iterator))
            IN  [r |-> [r EXCEPT !.iterator = SubSeq(@, k + 1, Len(@))],
                 bytes |-> SubSeq(r.iterator, 1, k)]
      [] r.kind = "GroupedIteratorReader" -> iterator_next_n(r, n)

\* the length of the buffer of the default skip_n
SKIP_LEN == 64

\* the default ReadBytes::skip_n, k bytes being skipped already: reads and discards
RECURSIVE default_skip_n(_, _, _)
default_skip_n(r, n, k) ==
    IF k >= n THEN [r |-> r, ret |-> n]
    ELSE LET b == read_next_n(r, Min(n - k, SKIP_LEN))
         IN  IF b.r.panicked THEN [r |-> b.r, ret |-> k]
             ELSE IF Len(b.bytes) = 0 THEN [r |-> b.r, ret |-> k]
             ELSE default_skip_n(b.r, n, k + Len(b.bytes))

\* ReadBytes::skip_n of the reader r: the reader afterwards and the value returned
read_skip_n(r, n) ==
    CASE r.kind = "ByteSliceReader" ->
            [r |-> [r EXCEPT !.index = skip_n(@, n)], ret |-> skip_n(r.index, n)]
      [] r.kind = "GroupedSliceByteReader" ->
            [r |-> advance_indices_by(r, n), ret |-> n]
      [] r.kind = "IteratorByteReader" ->
            [r |-> [r EXCEPT !.iterator = SubSeq(@, Min(n, Len(@)) + 1, Len(@))],
             ret |-> Min(n, Len(r.iterator))]
      [] r.kind = "GroupedIteratorReader" ->
            [r |-> iterator_skip(r, n), ret |-> n]

----------------------------------------------------------------------------
(* lib.rs: RowBuffer, ElisionMatch *)

RowBuffer(buf, ri, ei) ==
    [buffer |-> buf, length |-> Len(buf), row_index |-> ri, elt_index |-> ei]

is_right_aligned(row) == row.elt_index # row.row_index

\* the chunks of s.chunks(n): consecutive pieces of n elements, the last one shorter
RECURSIVE chunks(_, _)
chunks(s, n) ==
    IF Len(s) = 0 THEN << >>
    ELSE IF Len(s) <= n THEN << s >>
    ELSE << SubSeq(s, 1, n) >> \o chunks(SubSeq(s, n + 1, Len(s)), n)

\* ElisionMatch::try_match: Some(buffer) when the row becomes the elision candidate
try_match(row, o) ==
    IF Len(row.buffer) # elt_width(o) THEN None
    ELSE IF o.grouping.kind = "Ungrouped"
    THEN LET sc == row.buffer[1]
         IN  IF \A k \in 1..Len(row.buffer) : row.buffer[k] = sc
             THEN Some(row.buffer) ELSE None
    ELSE LET group_size == element_count(o.grouping.group_size)
             s == SubSeq(row.buffer, 1, group_size)
             cs == chunks(s, group_size)
         IN  IF \A k \in 1..Len(cs) : cs[k] = s
             THEN Some(row.buffer) ELSE None

\* matches with the candidate compared against the bytes that were read only
matches_prefix(em, row, o) ==
    Len(row.buffer) > 0 /\ SubSeq(em, 1, Len(row.buffer)) = row.buffer

\* matches with the width compared and the content not
matches_width(em, row, o) == Len(row.buffer) = elt_width(o)

\* ElisionMatch::matches
matches(em, row, o) ==
    IF Len(row.buffer) = elt_width(o) THEN em = row.buffer ELSE FALSE

----------------------------------------------------------------------------
(* lib.rs: HexdumpLineIterator *)

\* HexdumpLineIterator::calculate_row_index
calculate_row_index(idx, o) ==
    IF ~o.align THEN idx
    ELSE (idx \div elt_width(o)) * elt_width(o)

\* the read cursor after the skip of the first pull
index_after_skip(st, idx, o) ==
    IF st = "NotStarted" /\ o.skip > 0 THEN o.skip ELSE idx

\* read_len with the limit of the sub-range left out
read_len_unlimited(st, idx, o) ==
    IF st = "NotStarted" /\ o.align
    THEN elt_width(o) - (idx % elt_width(o))
    ELSE elt_width(o)

\* the number of bytes the pull requests from the byte source
read_len(st, idx, o) ==
    LET limit == IF IsSome(o.limit)
                 THEN (IF idx < Unwrap(o.limit) THEN Unwrap(o.limit) - idx ELSE 0)
                 ELSE elt_width(o)
        ew == Min(elt_width(o), limit)
    IN  IF st = "NotStarted" /\ o.align
        THEN IF IsSome(length(o)) /\ Unwrap(length(o)) < elt_width(o)
             THEN Unwrap(length(o))
             ELSE ew - (idx % ew)
        ELSE ew

\* elision_enabled with the option ignored
elision_always(o) == TRUE

\* the test of options.autoskip that guards the elision detector
elision_enabled(o) == o.autoskip

\* candidate_after with the row that ended a run not tried
candidate_dropped(em, rowbuffer, o) ==
    IF IsSome(em) THEN None ELSE try_match(rowbuffer, o)

\* elision_match after a row that the candidate em (if any) did not match:
\* the candidate is dropped on the mismatch, then the row itself is tried
candidate_after(em, rowbuffer, o) ==
    LET tm == try_match(rowbuffer, o)
    IN  IF IsSome(tm) THEN tm ELSE None

\* The arm NotStarted | InProgress of HexdumpLineIterator::next.  The result is a record:
\*   item     Option<[kind, row]>, the value returned
\*   index, state, elision_match, rd_index : the fields afterwards
\*   reads    the calls made on the byte source
\*   st_trace the values assigned to self.state, in order
PullRow(sl, o, ri, idx, st, em) ==
    LET doSkip == st = "NotStarted" /\ o.skip > 0
        ri1 == IF doSkip THEN skip_n(ri, o.skip) ELSE ri
        idx1 == index_after_skip(st, idx, o)
        rl == read_len(st, idx1, o)
        got == next_n(sl, ri1, rl)
        rowbuffer == RowBuffer(got, calculate_row_index(idx1, o), idx1)
        idx2 == idx1 + Len(got)
        elided == elision_enabled(o) /\ IsSome(em) /\ matches(Unwrap(em), rowbuffer, o)
        em1 == IF elision_enabled(o) THEN candidate_after(em, rowbuffer, o) ELSE em
        rds == (IF doSkip
                THEN << [op |-> "skip_n", n |-> o.skip, at |-> idx, got |-> 0] >>
                ELSE << >>)
               \o << [op |-> "next_n", n |-> rl, at |-> idx1, got |-> Len(got)] >>
    IN  IF elided
        THEN [item |-> Some([kind |-> "Elided", row |-> rowbuffer]),
              index |-> idx2, state |-> "InProgress", elision_match |-> em,
              rd_index |-> ri1 + Len(got), reads |-> rds,
              st_trace |-> << "InProgress", "InProgress" >>]
        ELSE IF rowbuffer.length > 0
        THEN [item |-> Some([kind |-> "Row", row |-> rowbuffer]),
              index |-> idx2, state |-> "InProgress", elision_match |-> em1,
              rd_index |-> ri1 + Len(got), reads |-> rds,
              st_trace |-> << "InProgress", "InProgress" >>]
        ELSE [item |-> None,
              index |-> idx2, state |-> "Completed", elision_match |-> em1,
              rd_index |-> ri1 + Len(got), reads |-> rds,
              st_trace |-> << "InProgress", "InProgress", "Completed" >>]

\* next without its terminal arm
IteratorNextRestart(sl, o, ri, idx, st, em) ==
    PullRow(sl, o, ri, idx, IF st = "Completed" THEN "InProgress" ELSE st, em)

\* HexdumpLineIterator::next
IteratorNext(sl, o, ri, idx, st, em) ==
    IF st = "Completed"
    THEN [item |-> None, index |-> idx, state |-> st, elision_match |-> em,
          rd_index |-> ri, reads |-> << >>, st_trace |-> << >>]
    ELSE PullRow(sl, o, ri, idx, st, em)

----------------------------------------------------------------------------
(* lib.rs: HexdumpLineWriter *)

\* the value v_index that write_row_index prints
write_row_index(row_index, o) ==
    IF o.index_offset.mode = "Absolute"
    THEN row_index - Min(row_index, o.skip) + o.index_offset.o
    ELSE row_index + o.index_offset.o

\* read_row_byte_aligned with the shift of a right-aligned row left out
read_row_byte_unshifted(row, c, o) ==
    IF c < Len(row.buffer) THEN Some(row.buffer[c + 1]) ELSE None

\* HexdumpLineWriter::read_row_byte_aligned, for column c in 0..elt_width-1
read_row_byte_aligned(row, c, o) ==
    LET ee == row.elt_index % elt_width(o)
    IN  IF o.align /\ is_right_aligned(row)
        THEN IF c < ee \/ c >= Len(row.buffer) + ee
             THEN None
             ELSE Some(row.buffer[c - ee + 1])
        ELSE IF c < Len(row.buffer)
             THEN Some(row.buffer[c + 1])
             ELSE None

\* ByteSliceReader::total_byte_hint
total_byte_hint(sl) == Some(Len(sl))

\* HexVisualWidth::hex_visual_width: the number of hexadecimal digits of u
RECURSIVE hex_visual_width(_)
hex_visual_width(u) ==
    IF u > 0 THEN 1 + hex_visual_width(u \div 16) ELSE 0

trunc_ceil_usize(n, trunc) ==
    LET rem == n \div trunc
    IN  IF rem = 0 THEN rem * trunc ELSE (rem + 1) * trunc

\* the last n bytes of usize::to_be_bytes
RECURSIVE to_be_bytes(_, _)
to_be_bytes(v, n) ==
    IF n = 0 THEN << >> ELSE Append(to_be_bytes(v \div 256, n - 1), v % 256)

\* the number of bytes of v_index that write_row_index prints
index_bytes(v_index, o, hint) ==
    IF IsSome(hint)
    THEN LET h == IF o.index_offset.mode = "Absolute"
                  THEN o.index_offset.o + Unwrap(hint)
                  ELSE o.skip + o.index_offset.o + Unwrap(hint)
         IN  Max((hex_visual_width(h) + 1) \div 2, 4)
    ELSE Max(4, trunc_ceil_usize(hex_visual_width(v_index) \div 2, 2))

\* the bytes write_row_index prints, each as two hexadecimal digits
index_field(v_index, o, hint) == to_be_bytes(v_index, index_bytes(v_index, o, hint))

\* is_printable_char without the space
is_graphic_char(ch) == ch >= 33 /\ ch <= 126

\* is_printable_char: ASCII alphanumeric, ASCII punctuation or space
is_printable_char(ch) == ch >= 32 /\ ch <= 126

\* the character write_row_ascii pushes for column c
ascii_char(row, c, o) ==
    LET b == IF IsSome(read_row_byte_aligned(row, c, o))
             THEN Unwrap(read_row_byte_aligned(row, c, o)) ELSE 32
    IN  IF is_printable_char(b) THEN b ELSE 46

UPPER_LUT == << 48, 49, 50, 51, 52, 53, 54, 55, 56, 57, 65, 66, 67, 68, 69, 70 >>
LOWER_LUT == << 48, 49, 50, 51, 52, 53, 54, 55, 56, 57, 97, 98, 99, 100, 101, 102 >>

\* HexdumpLineWriter::bchar_for_u8
bchar_for_u8(b, o) == IF o.uppercase THEN UPPER_LUT[b + 1] ELSE LOWER_LUT[b + 1]

\* u8_to_hex with the low digit first
u8_to_hex_low_first(b, o) ==
    IF o.uppercase
    THEN << UPPER_LUT[(b % 16) + 1], UPPER_LUT[(b \div 16) + 1] >>
    ELSE << LOWER_LUT[(b % 16) + 1], LOWER_LUT[(b \div 16) + 1] >>

\* HexdumpLineWriter::u8_to_hex (ToHex::to_hex_upper / to_hex_lower)
u8_to_hex(b, o) ==
    IF o.uppercase
    THEN << UPPER_LUT[(b \div 16) + 1], UPPER_LUT[(b % 16) + 1] >>
    ELSE << LOWER_LUT[(b \div 16) + 1], LOWER_LUT[(b % 16) + 1] >>

\* the characters write_row_index pushes: two digits per index byte, then ": "
RECURSIVE index_chars(_, _)
index_chars(bytes, o) ==
    IF Len(bytes) = 0 THEN << >>
    ELSE u8_to_hex(bytes[1], o) \o index_chars(Tail(bytes), o)

write_row_index_text(row_index, o, hint) ==
    index_chars(index_field(write_row_index(row_index, o), o, hint), o) \o << 58, 32 >>

\* write_byte with every base encoded as hexadecimal
write_byte_hex(b, o) ==
    IF IsSome(b)
    THEN << bchar_for_u8((Unwrap(b) \div 16) % 16, o), bchar_for_u8(Unwrap(b) % 16, o) >>
    ELSE << 32, 32 >>

\* HexdumpLineWriter::write_byte: the characters pushed for b : Option<u8>
write_byte(b, o) ==
    CASE o.base.kind = "Binary" ->
           IF IsSome(b)
           THEN [k \in 1..8 |-> bchar_for_u8((Unwrap(b) \div (2 ^ (8 - k))) % 2, o)]
           ELSE << 32, 32, 32, 32, 32, 32, 32, 32 >>
      [] o.base.kind = "Octal" ->
           IF IsSome(b)
           THEN LET lead == lead_char(o.base.lzc)
                    cc == << (Unwrap(b) \div 64) % 8, (Unwrap(b) \div 8) % 8, Unwrap(b) % 8 >>
                IN  << IF cc[1] = 0 /\ cc[2] # 0 THEN lead ELSE bchar_for_u8(cc[1], o),
                       IF cc[1] = 0 /\ cc[2] = 0 /\ cc[3] # 0
                       THEN lead ELSE bchar_for_u8(cc[2], o),
                       bchar_for_u8(cc[3], o) >>
           ELSE << 32, 32, 32 >>
      [] o.base.kind = "Decimal" ->
           IF IsSome(b)
           THEN LET lead == lead_char(o.base.lzc)
                    cc == << (Unwrap(b) \div 100) % 10, (Unwrap(b) \div 10) % 10,
                             Unwrap(b) % 10 >>
                IN  << IF cc[1] = 0 THEN lead ELSE bchar_for_u8(cc[1], o),
                       IF cc[1] = 0 /\ cc[2] = 0 /\ cc[3] # 0
                       THEN lead ELSE bchar_for_u8(cc[2], o),
                       bchar_for_u8(cc[3], o) >>
           ELSE << 32, 32, 32 >>
      [] o.base.kind = "Hex" ->
           IF IsSome(b)
           THEN << bchar_for_u8((Unwrap(b) \div 16) % 16, o), bchar_for_u8(Unwrap(b) % 16, o) >>
           ELSE << 32, 32 >>

\* the loop of write_row_bytes from column c on
RECURSIVE write_columns(_, _, _)
write_columns(row, c, o) ==
    IF c >= elt_width(o) THEN << >>
    ELSE write_byte(read_row_byte_aligned(row, c, o), o)
         \o as_spaces(spacing_for_index(o.grouping, c))
         \o write_columns(row, c + 1, o)

\* HexdumpLineWriter::write_row_bytes
write_row_bytes(row, o) ==
    write_columns(row, 0, o)
    \o (IF spacing_for_index(o.grouping, elt_width(o) - 1) = "None" THEN << 32 >> ELSE << >>)

\* HexdumpLineWriter::write_row_ascii
write_row_ascii(row, o) ==
    << 124 >> \o [c \in 1..elt_width(o) |-> ascii_char(row, c - 1, o)] \o << 124 >>

\* the line built by write_row_index, write_row_bytes and write_row_ascii;
\* text is the content of str_buffer, the other fields are the values it was built from
RowLine(row_index, row, o, hint) ==
    [star |-> FALSE,
     row_index |-> row_index,
     v_index |-> write_row_index(row_index, o),
     index |-> index_field(write_row_index(row_index, o), o, hint),
     cols |-> [c \in 1..elt_width(o) |-> read_row_byte_aligned(row, c - 1, o)],
     ascii |-> [c \in 1..elt_width(o) |-> ascii_char(row, c - 1, o)],
     text |-> write_row_index_text(row_index, o, hint) \o write_row_bytes(row, o)
              \o write_row_ascii(row, o)]

\* the line built by write_elision
StarLine ==
    [star |-> TRUE, row_index |-> 0, v_index |-> 0, index |-> << >>,
     cols |-> << >>, ascii |-> << >>, text |-> << 42 >>]

\* the capacity N of str_buffer : StackBuffer<256>
STR_BUFFER_SIZE == 256

\* StackBuffer::check_extension: TRUE when the extension panics
check_extension(len, extend_by) == len + extend_by >= STR_BUFFER_SIZE

\* the line flush_line hands to write_line: str_buffer after the push of the line feed
with_line_feed(ln) == [ln EXCEPT !.text = Append(@, 10)]

\* whether the next call on the sink w returns Err
sink_fails(w) == IsSome(sink_fail) /\ Unwrap(sink_fail).at = w.calls + 1

\* self.writer.write_line(s)? : the sink afterwards, err set when the call returned Err
write_line(w, ln) ==
    IF sink_fails(w)
    THEN [w EXCEPT !.calls = @ + 1, !.err = Some(Unwrap(sink_fail).error)]
    ELSE [w EXCEPT !.calls = @ + 1, !.out = Append(@, ln)]

\* flush with the error of the sink dropped
flush_ignoring_error(w) ==
    IF w.panicked \/ IsSome(w.err) THEN w
    ELSE IF sink_fails(w)
    THEN [w EXCEPT !.calls = @ + 1]
    ELSE [w EXCEPT !.calls = @ + 1, !.flushes = Append(@, Len(w.out))]

\* self.writer.flush()? : not called once an earlier call has returned Err
flush(w) ==
    IF w.panicked \/ IsSome(w.err) THEN w
    ELSE IF sink_fails(w)
    THEN [w EXCEPT !.calls = @ + 1, !.err = Some(Unwrap(sink_fail).error)]
    ELSE [w EXCEPT !.calls = @ + 1, !.flushes = Append(@, Len(w.out))]

\* flush_line with the sink flushed after every line, whatever the flush mode
flush_line_each(w, str_buffer, o) ==
    IF w.panicked \/ IsSome(w.err) THEN w
    ELSE IF IsSome(str_buffer) /\ check_extension(Len(Unwrap(str_buffer).text), 1)
    THEN [w EXCEPT !.panicked = TRUE]
    ELSE
    LET w1 == IF IsSome(str_buffer)
              THEN write_line(w, with_line_feed(Unwrap(str_buffer)))
              ELSE w
    IN  IF IsSome(w1.err) THEN w1
        ELSE flush([w1 EXCEPT !.flush_idx = @ + 1])

\* HexdumpLineWriter::flush_line on the sink state
\* w = [out, flush_idx, flushes, calls, err, panicked];
\* str_buffer is Some(line) when a line was built, None when it is empty.
\* str_buffer only grows while a line is built, so one of the extensions that build the
\* line panics exactly when the push of the line feed would: nothing of that line is
\* written then, and the unwinding runs nothing of what follows.
\* A call of the sink that returns Err makes flush_line return it (the ? operator),
\* and so does every caller: nothing more is done on a sink whose err is set.
flush_line(w, str_buffer, o) ==
    IF w.panicked \/ IsSome(w.err) THEN w
    ELSE IF IsSome(str_buffer) /\ check_extension(Len(Unwrap(str_buffer).text), 1)
    THEN [w EXCEPT !.panicked = TRUE]
    ELSE
    LET w1 == IF IsSome(str_buffer)
              THEN write_line(w, with_line_feed(Unwrap(str_buffer)))
              ELSE w
        fi == w1.flush_idx + 1
        doFlush == o.flush.mode = "AfterNLines" /\ o.flush.n > 0 /\ fi % o.flush.n = 0
    IN  IF IsSome(w1.err) THEN w1
        ELSE IF doFlush THEN flush([w1 EXCEPT !.flush_idx = fi])
        ELSE [w1 EXCEPT !.flush_idx = fi]

\* closing_index_row with the row width added
closing_index_row_plus(r, o) == r.row_index + elt_width(o)

\* the row index printed for the row that closes an elided run, a Row following
closing_index_row(r, o) == r.row_index - elt_width(o)

\* closing_index_end counted from the start of the sub-range
closing_index_end_counted(idx, o) == (idx - o.skip) - elt_width(o)

\* the row index printed for the row that closes an elided run at the end of the stream
closing_index_end(idx, o) == idx - elt_width(o)

\* writes_elision with the comparison off by one
writes_elision_geq(it, start) == (it - start) >= 1

\* whether the '*' line is written for the run that started at iteration start
writes_elision(it, start) == (it - start) > 1

\* the lines for a pending elided run: the '*' line (if any) and the closing row
close_run(w, er, it, row_index, o, hint) ==
    LET w1 == IF writes_elision(it, er.start)
              THEN flush_line(w, Some(StarLine), o) ELSE w
    IN  flush_line(w1, Some(RowLine(row_index, er.row, o, hint)), o)

----------------------------------------------------------------------------
(* The state machine: one dump *)

Sink ==
    [out |-> out, flush_idx |-> flush_idx, flushes |-> flushes, calls |-> sink_calls,
     err |-> None, panicked |-> FALSE]

\* ReadBytes::total_byte_hint of the byte source of the dump
\* (Some(slice.len()) or Some(slice.len() * N) of the slice-backed readers, None of the
\* iterator-backed ones)
byte_hint ==
    IF reader \in { "IteratorByteReader", "GroupedIteratorReader" }
    THEN None ELSE total_byte_hint(slice)

Pull == IteratorNext(slice, options, rd_index, index, state, elision_match)

IterUpdate(p) ==
    /\ index' = p.index
    /\ state' = p.state
    /\ elision_match' = p.elision_match
    /\ rd_index' = p.rd_index
    /\ reads' = reads \o p.reads
    /\ st_trace' = p.st_trace

\* whether one of the calls of the pull p on the byte source returns Err
read_fails(p) ==
    /\ IsSome(read_fail)
    /\ Len(reads) < Unwrap(read_fail)
    /\ Unwrap(read_fail) <= Len(reads) + Len(p.reads)

\* the body of the loop of do_hexdump_internal for the event ev: the sink afterwards
loop_body(ev) ==
    IF ev.kind = "Row"
    THEN LET w1 == IF IsSome(elided_row)
                   THEN close_run(Sink, Unwrap(elided_row), i,
                                  closing_index_row(ev.row, options), options,
                                  byte_hint)
                   ELSE Sink
         IN  flush_line(w1, Some(RowLine(ev.row.row_index, ev.row, options,
                                         byte_hint)), options)
    ELSE flush_line(Sink, None, options)

\* do_hexdump_internal after its loop, the cursor of the iterator being idx
loop_exit(idx) ==
    IF IsSome(elided_row)
    THEN close_run(Sink, Unwrap(elided_row), i,
                   closing_index_end(idx, options), options, byte_hint)
    ELSE Sink

\* do_hexdump_internal from the end of its loop on: the closing of a pending run
\* and the last flush
internal_end(idx) ==
    LET w1 == loop_exit(idx)
    IN  IF options.flush.mode = "AfterNLines" /\ options.flush.n > 0
           /\ w1.flush_idx % options.flush.n # 0
        THEN flush(w1) ELSE w1

\* do_hexdump after the loop of do_hexdump_internal: the flush of FlushMode::End
\* is made only when do_hexdump_internal returned Ok
dump_end(idx) ==
    IF options.flush.mode = "End" THEN flush(internal_end(idx)) ELSE internal_end(idx)

\* what the handler of a pull leaves in the writer and in the sink
SinkUpdate(w) ==
    /\ out' = w.out
    /\ flush_idx' = w.flush_idx
    /\ flushes' = w.flushes
    /\ sink_calls' = w.calls

\* one iteration of the loop of do_hexdump_internal: the pull yields a row
Step ==
    /\ pc = "loop"
    /\ LET p == Pull IN
        /\ ~read_fails(p)
        /\ IsSome(p.item)
        /\ IterUpdate(p)
        /\ events' = Append(events, Unwrap(p.item))
        /\ LET ev == Unwrap(p.item)
               r == ev.row
               w == loop_body(ev)
           IN  /\ ~w.panicked
               /\ ~IsSome(w.err)
               /\ elided_row' = IF ev.kind = "Row" THEN None
                                ELSE IF IsSome(elided_row) THEN elided_row
                                ELSE Some([row |-> r, start |-> i])
               /\ SinkUpdate(w)
        /\ i' = i + 1
    /\ UNCHANGED << slice, options, read_fail, pc, result, idle, reader, sink_fail >>
    /\ UNCHANGED source_vars

\* the pull yields nothing: the rest of do_hexdump_internal and of do_hexdump
Finish ==
    /\ pc = "loop"
    /\ LET p == Pull IN
        /\ ~read_fails(p)
        /\ ~IsSome(p.item)
        /\ IterUpdate(p)
        /\ LET w == dump_end(p.index)
           IN  /\ ~w.panicked
               /\ ~IsSome(w.err)
               /\ SinkUpdate(w)
    /\ pc' = "done"
    \* WriteHexdump::consume(Ok(writer))
    /\ result' = Some("Ok")
    /\ UNCHANGED << slice, options, read_fail, elided_row, i, events, idle, reader, sink_fail >>
    /\ UNCHANGED source_vars

\* a call of the pull on the byte source returns Err: the unwrap() of next
\* (skip_n) or of read_into_buffer (next_n) panics and do_hexdump unwinds
\* without returning; the calls up to the failing one have been made
ReadPanic ==
    /\ pc = "loop"
    /\ LET p == Pull IN
        /\ read_fails(p)
        /\ LET k == Unwrap(read_fail) - Len(reads)
           IN  reads' = reads \o [SubSeq(p.reads, 1, k) EXCEPT ![k].got = 0]
    /\ pc' = "panicked"
    /\ UNCHANGED << slice, options, read_fail, rd_index, index, state, elision_match,
                    elided_row, i, flush_idx, out, flushes, result, events, st_trace, idle,
                    reader, sink_fail, sink_calls >>
    /\ UNCHANGED source_vars

\* a line of the iteration does not fit str_buffer: check_extension panics and
\* do_hexdump unwinds without returning; the lines flushed before it stay written
RenderPanic ==
    /\ pc = "loop"
    /\ LET p == Pull
           w == IF IsSome(p.item) THEN loop_body(Unwrap(p.item)) ELSE loop_exit(p.index)
       IN
        /\ ~read_fails(p)
        /\ w.panicked
        /\ IterUpdate(p)
        /\ events' = IF IsSome(p.item) THEN Append(events, Unwrap(p.item)) ELSE events
        /\ SinkUpdate(w)
    /\ pc' = "panicked"
    /\ UNCHANGED << slice, options, read_fail, elided_row, i, result, idle, reader, sink_fail >>
    /\ UNCHANGED source_vars

\* a call of the sink returns Err: flush_line, do_hexdump_internal and do_hexdump
\* return it at once, and do_hexdump hands it to WriteHexdump::consume
SinkError ==
    /\ pc = "loop"
    /\ LET p == Pull
           w == IF IsSome(p.item) THEN loop_body(Unwrap(p.item)) ELSE dump_end(p.index)
       IN
        /\ ~read_fails(p)
        /\ ~w.panicked
        /\ IsSome(w.err)
        /\ IterUpdate(p)
        /\ events' = IF IsSome(p.item) THEN Append(events, Unwrap(p.item)) ELSE events
        /\ SinkUpdate(w)
        \* WriteHexdump::consume(Err(e))
        /\ result' = w.err
    /\ pc' = "done"
    /\ UNCHANGED << slice, options, read_fail, elided_row, i, idle, reader, sink_fail >>
    /\ UNCHANGED source_vars

\* a further pull of the row iterator after the dump has ended
IdlePull ==
    /\ pc = "done"
    /\ idle < MaxIdle
    /\ LET p == Pull IN
        /\ IterUpdate(p)
        /\ events' = IF IsSome(p.item) THEN Append(events, Unwrap(p.item)) ELSE events
    /\ idle' = idle + 1
    /\ UNCHANGED << slice, options, read_fail, elided_row, i, flush_idx, out, flushes,
                    pc, result, reader, sink_fail, sink_calls >>
    /\ UNCHANGED source_vars

Next == Step \/ Finish \/ IdlePull

\* the dump from a byte source that can fail
NextFail == Step \/ Finish \/ IdlePull \/ ReadPanic

\* the dump of rows of any width
NextWide == Step \/ Finish \/ IdlePull \/ RenderPanic

\* the dump into a sink that can fail
NextSink == Step \/ Finish \/ SinkError

----------------------------------------------------------------------------
(* The byte sources under test: the same calls are made on every reader, and *)
(* on a second instance of each whose skip is the default skip_n of the trait *)

Kinds ==
    { "ByteSliceReader", "GroupedSliceByteReader", "IteratorByteReader",
      "GroupedIteratorReader" }

\* a reader on which no call is made once it has panicked
call_next_n(r, n) == IF r.panicked THEN [r |-> r, bytes |-> << >>] ELSE read_next_n(r, n)

\* skip_n(n) as the first call on every source
SkipSources ==
    /\ pc = "sources"
    /\ calls = << >>
    /\ \E n \in 0..(Len(elts) * sources["GroupedSliceByteReader"].N + MaxBeyond) :
        /\ sources' = [k \in Kinds |-> read_skip_n(sources[k], n).r]
        /\ discards' = [k \in Kinds |-> default_skip_n(discards[k], n, 0).r]
        /\ calls' = Append(calls,
                [op |-> "skip_n", n |-> n,
                 ret |-> [k \in Kinds |-> read_skip_n(sources[k], n).ret],
                 got |-> [k \in Kinds |-> << >>],
                 discarded |-> [k \in Kinds |-> << >>]])
    /\ UNCHANGED << elts, endianness >>
    /\ UNCHANGED dump_vars

\* next_n with a buffer of n bytes on every source
ReadSources ==
    /\ pc = "sources"
    /\ Len(calls) < MaxCalls
    /\ \E n \in 1..MaxRead :
        /\ sources' = [k \in Kinds |-> call_next_n(sources[k], n).r]
        /\ discards' = [k \in Kinds |-> call_next_n(discards[k], n).r]
        /\ calls' = Append(calls,
                [op |-> "next_n", n |-> n,
                 ret |-> [k \in Kinds |-> Len(call_next_n(sources[k], n).bytes)],
                 got |-> [k \in Kinds |-> call_next_n(sources[k], n).bytes],
                 discarded |-> [k \in Kinds |-> call_next_n(discards[k], n).bytes]])
    /\ UNCHANGED << elts, endianness >>
    /\ UNCHANGED dump_vars

NextSources == SkipSources \/ ReadSources

\* the readers read from the start, and the dumps made from them
NextGrouped == ReadSources \/ Step \/ Finish

----------------------------------------------------------------------------
(* Initial states: the inputs of a dump *)

\* all byte streams of length 0..n over Bytes
Streams(n) == UNION { [1..k -> Bytes] : k \in 0..n }

\* the byte streams of length 0..n in which every byte is its own offset
PosStreams(n) == { [k \in 1..m |-> k - 1] : m \in 0..n }

\* the sub-ranges with skip <= limit
Limits(sk) == { None } \cup { Some(sk + d) : d \in 0..MaxRange }

Relative(n) == [mode |-> "Relative", o |-> n]
Absolute(n) == [mode |-> "Absolute", o |-> n]
IndexOffsets == { Relative(0), Relative(MaxOffset), Absolute(0), Absolute(MaxOffset) }

FlushEnd == [mode |-> "End", n |-> 0]
AfterNLines(n) == [mode |-> "AfterNLines", n |-> n]

\* the byte widths of the integers of as_hexd_grouped! and IntoHexdGrouped
Widths == { 2, 4, 8, 16 }

\* the integer of n bytes whose bytes, most significant first, are
\* 16 * t, 16 * t + 1, ..: no two bytes of a sequence of such integers are equal
Element(t, n) == [j \in 1..(n \div 2) |-> (16 * t + 2 * (j - 1)) * 256 + 16 * t + 2 * j - 1]

\* the sequences of 0..m integers of n bytes
ElementSeqs(m, n) == { [t \in 1..k |-> Element(t, n)] : k \in 0..m }

\* the byte stream of the elements sl in the byte order end
RECURSIVE ByteStream(_, _)
ByteStream(sl, end) ==
    IF sl = << >> THEN << >> ELSE to_bytes(Head(sl), end) \o ByteStream(Tail(sl), end)

\* the four provided readers over the same data
NewSources(sl, n, end) ==
    [k \in Kinds |->
        CASE k = "ByteSliceReader" -> ByteSliceReader(ByteStream(sl, end))
          [] k = "GroupedSliceByteReader" -> GroupedSliceByteReader(sl, n, end)
          [] k = "IteratorByteReader" -> IteratorByteReader(ByteStream(sl, end))
          [] k = "GroupedIteratorReader" -> GroupedIteratorReader(sl, n, end)]

\* no byte source is under test during a dump
NoSources ==
    /\ elts = << >>
    /\ endianness = "Big"
    /\ sources = << >>
    /\ discards = << >>
    /\ calls = << >>

\* the state after HexdumpLineWriter::new, whatever the byte source and the sink
InitWriter(streams, groupings, ranges, aligns, autoskips, offsets, flushmodes, bases, cases, fails) ==
    /\ slice \in streams
    /\ \E g \in groupings, rg \in ranges, al \in aligns, as \in autoskips,
          io \in offsets, fm \in flushmodes, ba \in bases, uc \in cases :
            options = [grouping |-> g, skip |-> rg.skip, limit |-> rg.limit, align |-> al,
                       autoskip |-> as, index_offset |-> io, flush |-> fm,
                       base |-> ba, uppercase |-> uc]
    /\ read_fail \in fails
    /\ result = None
    /\ rd_index = 0
    /\ index = 0
    /\ state = "NotStarted"
    /\ elision_match = None
    /\ elided_row = None
    /\ i = 0
    /\ flush_idx = 0
    /\ out = << >>
    /\ flushes = << >>
    /\ pc = "loop"
    /\ events = << >>
    /\ reads = << >>
    /\ st_trace = << >>
    /\ idle = 0
    /\ sink_calls = 0

\* the state after HexdumpLineWriter::new over a ByteSliceReader and a sink that never fails
InitDump(streams, groupings, ranges, aligns, autoskips, offsets, flushmodes, bases, cases, fails) ==
    /\ InitWriter(streams, groupings, ranges, aligns, autoskips, offsets, flushmodes, bases, cases, fails)
    /\ reader = "ByteSliceReader"
    /\ sink_fail = None
    /\ NoSources

\* the sub-ranges that start at one of skips
Ranges(skips) ==
    UNION { { [skip |-> sk, limit |-> lim] : lim \in Limits(sk) } : sk \in skips }

\* the whole stream: HexdRange { skip: 0, limit: None }
WholeRange == [skip |-> 0, limit |-> None]

\* dumps in upper-case hexadecimal from a byte source that never fails
InitWith(streams, groupings, skips, aligns, autoskips, offsets, flushmodes) ==
    InitDump(streams, groupings, Ranges(skips), aligns, autoskips, offsets, flushmodes,
             { Hex }, { TRUE }, { None })

\* no dump is made while the byte sources are under test
NoDump ==
    /\ slice = << >>
    /\ options = [grouping |-> Ungrouped(1), skip |-> 0, limit |-> None, align |-> TRUE,
                  autoskip |-> TRUE, index_offset |-> Relative(0), flush |-> FlushEnd,
                  base |-> Hex, uppercase |-> TRUE]
    /\ read_fail = None
    /\ result = None
    /\ rd_index = 0
    /\ index = 0
    /\ state = "NotStarted"
    /\ elision_match = None
    /\ elided_row = None
    /\ i = 0
    /\ flush_idx = 0
    /\ out = << >>
    /\ flushes = << >>
    /\ pc = "sources"
    /\ events = << >>
    /\ reads = << >>
    /\ st_trace = << >>
    /\ idle = 0
    /\ reader = "ByteSliceReader"
    /\ sink_fail = None
    /\ sink_calls = 0

\* the four readers, fresh, over every sequence of integers of every width
InitSources ==
    /\ NoDump
    /\ endianness \in { "Big", "Little" }
    /\ \E n \in Widths :
        /\ elts \in ElementSeqs(MaxElts, n)
        /\ sources = NewSources(elts, n, endianness)
        /\ discards = NewSources(elts, n, endianness)
    /\ calls = << >>

\* the grouping of as_hexd_grouped! and of IntoHexdGrouped for integers of n bytes
GroupingOf(n) ==
    CASE n = 2 -> GroupedSp("Short", "None", 8, "Normal")
      [] n = 4 -> GroupedSp("Int", "None", 4, "Normal")
      [] n = 8 -> GroupedSp("Long", "None", 2, "Normal")
      [] n = 16 -> GroupedSp("ULong", "Normal", 1, "Normal")

\* as_hexd (GroupedSliceByteReader) and into_hexd (GroupedIteratorReader) of the same
\* integers, with an index offset; the row iterator reads the byte stream of the reader
InitGroupedDump ==
    /\ endianness \in { "Big", "Little" }
    /\ \E n \in Widths :
        /\ elts \in ElementSeqs(MaxElts, n)
        /\ InitWriter({ ByteStream(elts, endianness) }, { GroupingOf(n) }, { WholeRange },
                      { TRUE }, { TRUE }, { Relative(0), Relative(MaxWideOffset) },
                      { FlushEnd }, { Hex }, { TRUE }, { None })
    /\ reader \in { "GroupedSliceByteReader", "GroupedIteratorReader" }
    /\ sink_fail = None
    /\ sources = << >>
    /\ discards = << >>
    /\ calls = << >>

\* the grouped readers under test, and the dumps made from them
InitGrouped == InitSources \/ InitGroupedDump

\* two values of WriteHexdump::Error
Errors == { "BrokenPipe", "WriteZero" }

\* the sinks: one that never fails, and those whose call number at returns Err(error)
Sinks == { None } \cup { Some([at |-> k, error |-> e]) : k \in 1..MaxSinkFail, e \in Errors }

\* dumps into a sink one of whose calls may return Err, in every flush mode
InitSink ==
    /\ InitWriter(Streams(MaxShort + 1), { Ungrouped(1), Ungrouped(2) }, { WholeRange },
                  { TRUE }, BOOLEAN, { Relative(0) },
                  { FlushEnd, AfterNLines(1), AfterNLines(2) }, { Hex }, { TRUE }, { None })
    /\ reader = "ByteSliceReader"
    /\ sink_fail \in Sinks
    /\ NoSources

\* dumps with and without autoskip of the same streams, whole and from inside a row
InitSkip ==
    InitDump(Streams(MaxLen), { Ungrouped(1), Ungrouped(2), Grouped("Byte", 2) },
             { WholeRange, [skip |-> MaxElideSkip, limit |-> None],
               [skip |-> MaxElideSkip, limit |-> Some(MaxLen - 1)] },
             BOOLEAN, BOOLEAN, { Relative(0), Absolute(MaxOffset) }, { FlushEnd },
             { Hex }, { TRUE }, { None })

\* dumps with autoskip enabled, over streams with repeated rows
InitElide ==
    InitWith(Streams(MaxLen),
             { Ungrouped(1), Ungrouped(2), Grouped("Byte", 2), Grouped("Short", 1) },
             0..MaxElideSkip, BOOLEAN, { TRUE }, { Relative(0) }, { FlushEnd })

\* dumps of a sub-range, with and without alignment
InitRange ==
    InitWith(PosStreams(MaxPos) \cup Streams(MaxShort),
             { Ungrouped(1), Ungrouped(2), Ungrouped(3), Grouped("Short", 2) },
             0..MaxSkip, BOOLEAN, BOOLEAN, { Relative(0) }, { FlushEnd })

\* dumps under every index offset
InitIndex ==
    InitWith(Streams(MaxShort + 1) \cup PosStreams(MaxPos),
             { Ungrouped(1), Ungrouped(2) },
             0..MaxSkip, BOOLEAN, BOOLEAN, IndexOffsets, { FlushEnd })

\* dumps from a byte source one of whose calls may return Err
InitFail ==
    InitDump(PosStreams(MaxPos) \cup Streams(MaxShort), { Ungrouped(1), Ungrouped(2) },
             Ranges(0..MaxElideSkip), BOOLEAN, BOOLEAN, { Relative(0) }, { FlushEnd },
             { Hex }, { TRUE }, { None } \cup { Some(k) : k \in 1..MaxFail })

Spacings == { "None", "Normal", "Wide", "UltraWide" }

\* streams that repeat one byte: the empty one, one byte, a quarter of n and n bytes
ConstStreams(n) == { [k \in 1..m |-> b] : m \in { 0, 1, n \div 4, n }, b \in Bytes }

\* dumps of wide rows in every base
InitWide ==
    InitDump(ConstStreams(MaxWide),
             { UngroupedSp(n, sp) : n \in { MaxWide \div 4, MaxWide \div 2, MaxWide },
                                    sp \in Spacings }
             \cup { GroupedSp("ULong", "None", 2, "Normal") },
             { WholeRange }, { TRUE }, { TRUE }, { Relative(0) }, { FlushEnd },
             { Hex, Binary, Decimal("Space"), Octal("Zero") }, { TRUE }, { None })

Bases ==
    { Hex, Binary } \cup { Decimal(lzc) : lzc \in { "Space", "Zero", "Underscore" } }
    \cup { Octal(lzc) : lzc \in { "Space", "Zero", "Underscore" } }

\* dumps of one byte of any value in a row of two columns, in every base and case
InitEncode ==
    InitDump({ << b >> : b \in AllBytes }, { Ungrouped(2) }, { WholeRange }, { TRUE },
             { TRUE }, { Relative(0) }, { FlushEnd }, Bases, BOOLEAN, { None })

\* dumps under every combination of spacings
InitSpacing ==
    InitDump(Streams(MaxShort + 1),
             { UngroupedSp(n, sp) : n \in { 1, 3 }, sp \in Spacings }
             \cup { GroupedSp(gs, bsp, n, gsp) : gs \in { "Byte", "Short", "Int" },
                       bsp \in Spacings, n \in 1..2, gsp \in Spacings },
             { WholeRange }, { TRUE }, { TRUE }, { Relative(0) }, { FlushEnd },
             { Hex, Binary }, { TRUE }, { None })

\* dumps whose index has hexadecimal digits above 9, in both cases
InitIndexText ==
    InitDump(PosStreams(MaxPos) \cup { [k \in 1..MaxPos |-> 0] },
             { Ungrouped(1), Ungrouped(2) }, Ranges(0..MaxSkip), BOOLEAN, { TRUE },
             { Relative(0), Relative(MaxHexOffset), Absolute(MaxOffset),
               Absolute(MaxHexOffset) },
             { FlushEnd }, { Hex }, BOOLEAN, { None })

\* dumps in every flush mode
InitFlush ==
    InitDump(Streams(MaxLen), { Ungrouped(1), Ungrouped(2) }, { WholeRange }, { TRUE },
             BOOLEAN, { Relative(0) },
             { FlushEnd } \cup { AfterNLines(n) : n \in 0..MaxFlushN },
             { Hex }, { TRUE }, { None })

Init == InitElide \/ InitRange

Spec == Init /\ [][Next]_vars
SpecElide == InitElide /\ [][Next]_vars
SpecRange == InitRange /\ [][Next]_vars
SpecIndex == InitIndex /\ [][Next]_vars
SpecFail == InitFail /\ [][NextFail]_vars
SpecWide == InitWide /\ [][NextWide]_vars
SpecEncode == InitEncode /\ [][Next]_vars
SpecSpacing == InitSpacing /\ [][Next]_vars
SpecIndexText == InitIndexText /\ [][Next]_vars
SpecFlush == InitFlush /\ [][Next]_vars
SpecSkip == InitSkip /\ [][Next]_vars
SpecSink == InitSink /\ [][NextSink]_vars
SpecSources == InitSources /\ [][NextSources]_vars
SpecGrouped == InitGrouped /\ [][NextGrouped]_vars

----------------------------------------------------------------------------
(* Vocabulary of the properties *)

Width == elt_width(options)
Done == pc = "done"

\* the rows the iterator yielded, in order
NumRows == Len(events)
Row(k) == events[k].row

\* the line that renders row k in full, at its own row index
LineOf(k) ==
    with_line_feed(RowLine(Row(k).row_index, Row(k), options, byte_hint))

\* the '*' line as it is written
StarOut == with_line_feed(StarLine)

\* section 4.3 of the specification: a full-width row is uniform when every byte
\* (Ungrouped) or every chunk of the group's element size (Grouped) equals the first
IsUniform(row) ==
    /\ Len(row.buffer) = Width
    /\ IF options.grouping.kind = "Ungrouped"
       THEN \A k \in 1..Len(row.buffer) : row.buffer[k] = row.buffer[1]
       ELSE LET gs == element_count(options.grouping.group_size)
                cs == chunks(row.buffer, gs)
            IN  \A k \in 1..Len(cs) : cs[k] = cs[1]

\* rows a..b are a maximal run of byte-identical full-width uniform rows
MaximalRun(a, b) ==
    /\ a <= b
    /\ \A k \in a..b : IsUniform(Row(k)) /\ Row(k).buffer = Row(a).buffer
    /\ a > 1 => Row(a - 1).buffer # Row(a).buffer
    /\ b < NumRows => Row(b + 1).buffer # Row(a).buffer

\* the positions in the output of the rows whose row index lies in lo..hi
PositionsOf(lo, hi) ==
    { p \in 1..Len(out) : ~out[p].star /\ out[p].row_index >= lo /\ out[p].row_index <= hi }

SetMin(S) == CHOOSE x \in S : \A y \in S : x <= y
SetMax(S) == CHOOSE x \in S : \A y \in S : x >= y

\* the part of the output from the first to the last line of rows a..b
Rendering(a, b) ==
    LET P == PositionsOf(Row(a).row_index, Row(b).row_index)
    IN  IF P = {} THEN << >> ELSE SubSeq(out, SetMin(P), SetMax(P))

----------------------------------------------------------------------------
(* Properties *)

\* C1: with autoskip enabled, a maximal run of k byte-identical full-width
\* uniform rows is rendered as the single row (k = 1), as both rows and no '*'
\* (k = 2), and as first row, '*', last row (k >= 3), wherever the run lies.
C1_RunRendering ==
    (Done /\ options.autoskip) =>
        \A a \in 1..NumRows : \A b \in a..NumRows :
            MaximalRun(a, b) =>
                Rendering(a, b) =
                    IF b = a THEN << LineOf(a) >>
                    ELSE IF b = a + 1 THEN << LineOf(a), LineOf(b) >>
                    ELSE << LineOf(a), StarOut, LineOf(b) >>

\* a run of three or more rows in the middle of the stream, and a run of two
C1_Witness ==
    /\ Done /\ options.autoskip
    /\ \E a \in 2..NumRows : \E b \in (a + 2)..(NumRows - 1) : MaximalRun(a, b)
    /\ \E a \in 1..NumRows : a + 1 <= NumRows /\ MaximalRun(a, a + 1)

\* the rows that were read with at least one byte
NonEmptyReads == { k \in 1..Len(reads) : reads[k].op = "next_n" /\ reads[k].got > 0 }

\* C2: with autoskip disabled no Elided event is yielded and no elision
\* candidate is set; every non-empty row read is its own output line, no line
\* is '*', and there are as many lines as non-empty rows read.
C2_NoElisionWhenDisabled ==
    ~options.autoskip =>
        /\ \A k \in 1..NumRows : events[k].kind = "Row"
        /\ elision_match = None /\ elided_row = None
        /\ \A p \in 1..Len(out) : ~out[p].star
        /\ Len(out) = Cardinality(NonEmptyReads)
        /\ Len(out) = NumRows
        /\ \A k \in 1..NumRows : out[k] = LineOf(k)

\* three byte-identical uniform rows dumped with autoskip disabled
C2_Witness ==
    /\ Done /\ ~options.autoskip
    /\ \E a \in 1..NumRows : a + 2 <= NumRows /\ MaximalRun(a, a + 2)

IsShort(row) == Len(row.buffer) < Width

\* C3: a row shorter than the row width is never Elided and never the
\* elision candidate; it ends the run in progress and is printed in full.
C3_ShortRowNeverElided ==
    options.autoskip =>
        /\ \A k \in 1..NumRows :
              IsShort(Row(k)) =>
                  /\ events[k].kind = "Row"
                  /\ \E p \in 1..Len(out) : out[p] = LineOf(k)
        /\ IsSome(elision_match) => Len(Unwrap(elision_match)) = Width
        /\ IsSome(elided_row) => Len(Unwrap(elided_row).row.buffer) = Width
        /\ (NumRows > 0 /\ IsShort(Row(NumRows))) =>
              /\ elision_match = None
              /\ elided_row = None
              /\ out[Len(out)] = LineOf(NumRows)

\* a short final row whose bytes all equal the bytes of the run before it
C3_Witness ==
    /\ options.autoskip /\ NumRows >= 3
    /\ events[NumRows - 1].kind = "Elided"
    /\ IsShort(Row(NumRows)) /\ Len(Row(NumRows).buffer) > 0
    /\ \A k \in 1..Len(Row(NumRows).buffer) :
          Row(NumRows).buffer[k] = Row(NumRows - 1).buffer[k]

\* the bytes of the visible columns of the output rows, in order
RECURSIVE VisibleOfCols(_)
VisibleOfCols(cols) ==
    IF Len(cols) = 0 THEN << >>
    ELSE cols[1] \o VisibleOfCols(Tail(cols))

RECURSIVE VisibleBytes(_)
VisibleBytes(lines) ==
    IF Len(lines) = 0 THEN << >>
    ELSE VisibleOfCols(lines[1].cols) \o VisibleBytes(Tail(lines))

\* the end of the skip/limit window in a stream
WindowEnd ==
    IF IsSome(options.limit) THEN Min(Len(slice), Unwrap(options.limit)) ELSE Len(slice)

\* the bytes of the stream inside the skip/limit window
Window == SubSeq(slice, options.skip + 1, WindowEnd)

\* C4: the bytes rendered by a dump (autoskip off) are exactly the stream
\* bytes at the offsets skip <= p < min(L, limit), with and without alignment.
C4_WindowRendered ==
    (Done /\ ~options.autoskip) => VisibleBytes(out) = Window

\* C5: with alignment enabled and skip not a multiple of the row width W the
\* first row has row index floor(skip / W) * W, its first skip % W byte and
\* ASCII columns are blank, its bytes start at column skip % W and every later
\* row begins at a multiple of W; with alignment disabled the first row starts
\* at column 0 and is indexed by skip.
C5_FirstRowAlignment ==
    Len(out) >= 1 =>
        LET sk == options.skip
            first == out[1]
        IN  /\ (options.align /\ sk % Width # 0) =>
                  /\ first.row_index = (sk \div Width) * Width
                  /\ \A c \in 1..(sk % Width) :
                        first.cols[c] = None /\ first.ascii[c] = 32
                  /\ first.cols[(sk % Width) + 1] = Some(slice[sk + 1])
                  /\ \A k \in 2..NumRows : Row(k).elt_index % Width = 0
            /\ ~options.align =>
                  /\ first.row_index = sk
                  /\ first.cols[1] = Some(slice[sk + 1])

\* an unaligned start with alignment enabled, followed by two more rows
C5_Witness ==
    /\ Done /\ options.align /\ options.skip % Width # 0
    /\ NumRows >= 3 /\ Len(out) >= 3

RECURSIVE SumRowLengths(_)
SumRowLengths(k) ==
    IF k = 0 THEN 0 ELSE Len(Row(k).buffer) + SumRowLengths(k - 1)

\* C6: with alignment disabled the lengths of the rows yielded (Row and Elided
\* events) sum to max(0, min(L, limit) - skip), no row is longer than W and
\* only the last row may be shorter than W.
C6_RowLengthCoverage ==
    (Done /\ ~options.align) =>
        /\ SumRowLengths(NumRows) = Max(0, WindowEnd - options.skip)
        /\ \A k \in 1..NumRows : Len(Row(k).buffer) <= Width
        /\ \A k \in 1..(NumRows - 1) : Len(Row(k).buffer) = Width

\* a sub-range that starts after the stream start and ends before the stream
\* end, whose last row is short
C6_Witness ==
    /\ Done /\ ~options.align /\ options.skip > 0
    /\ IsSome(options.limit) /\ Unwrap(options.limit) < Len(slice)
    /\ NumRows >= 2 /\ IsShort(Row(NumRows))

\* event k is the last Elided event of its run
ClosesRun(k) ==
    /\ events[k].kind = "Elided"
    /\ k < NumRows => events[k + 1].kind = "Row"

\* C7: the full row that closes an elided run is printed with the stream offset
\* of the last row of the run, directly before the row that broke the run, or
\* as the last line when the stream ended inside the run; for any skip,
\* alignment and index offset.
C7_ClosingRowOffset ==
    Done =>
        \A k \in 1..NumRows :
            ClosesRun(k) =>
                /\ Row(k).row_index = Row(k).elt_index
                /\ \E p \in 1..Len(out) :
                      /\ out[p] = LineOf(k)
                      /\ out[p].v_index = write_row_index(Row(k).elt_index, options)
                      /\ IF k < NumRows
                         THEN p < Len(out) /\ out[p + 1] = LineOf(k + 1)
                              /\ Row(k).elt_index = Row(k + 1).row_index - Width
                         ELSE p = Len(out)
                              /\ Row(k).elt_index = index - Width

\* a run closed by the end of the stream in a dump with a non-zero skip and an
\* Absolute index offset
C7_Witness ==
    /\ Done /\ options.skip > 0
    /\ options.index_offset.mode = "Absolute" /\ options.index_offset.o > 0
    /\ NumRows >= 3 /\ ClosesRun(NumRows) /\ events[NumRows - 1].kind = "Elided"

\* C8: a '*' line is never the first line, never the last line and never next
\* to another '*' line, and the rows before and after it have the same bytes.
C8_ElisionMarkerBounded ==
    \A p \in 1..Len(out) :
        out[p].star =>
            /\ p > 1 /\ p < Len(out)
            /\ ~out[p - 1].star /\ ~out[p + 1].star
            /\ out[p - 1].cols = out[p + 1].cols

\* an output with two '*' lines
C8_Witness ==
    /\ Done
    /\ \E p \in 1..Len(out) : \E q \in (p + 1)..Len(out) : out[p].star /\ out[q].star

\* the number that the printed bytes of an index field denote
RECURSIVE IndexValue(_)
IndexValue(bytes) ==
    IF Len(bytes) = 0 THEN 0
    ELSE IndexValue(SubSeq(bytes, 1, Len(bytes) - 1)) * 256 + bytes[Len(bytes)]

\* C9: the printed index values of successive row lines never decrease.
C9_IndexMonotone ==
    \A p \in 1..Len(out) : \A q \in p..Len(out) :
        (~out[p].star /\ ~out[q].star) =>
            /\ Len(out[p].index) = Len(out[q].index)
            /\ IndexValue(out[p].index) <= IndexValue(out[q].index)

\* an elided run printed under an Absolute index offset after a skip
C9_Witness ==
    /\ Done /\ options.autoskip /\ options.skip > 0
    /\ options.index_offset.mode = "Absolute"
    /\ \E p \in 1..Len(out) : out[p].star

\* the moves of the iterator state
Moves == { << "NotStarted", "InProgress" >>, << "InProgress", "InProgress" >>,
           << "InProgress", "Completed" >> }

\* every assignment in the trace t, started in state s, is one of the moves
FollowsMoves(s, t) ==
    LET path == << s >> \o t
    IN  \A k \in 1..(Len(path) - 1) : << path[k], path[k + 1] >> \in Moves

\* C10: the state only moves NotStarted -> InProgress -> Completed; it becomes
\* Completed exactly on the pull whose read returns zero bytes, which yields
\* nothing; once Completed a pull yields nothing and does not touch the source.
C10_IteratorStateMachine ==
    [][ /\ FollowsMoves(state, st_trace')
        /\ state' = IF st_trace' = << >> THEN state ELSE st_trace'[Len(st_trace')]
        /\ state # "Completed" =>
              /\ Len(reads') > Len(reads)
              /\ state' = "Completed" <=> reads'[Len(reads')].got = 0
              /\ state' = "Completed" => events' = events
        /\ state = "Completed" =>
              /\ state' = "Completed"
              /\ events' = events
              /\ reads' = reads /\ rd_index' = rd_index /\ index' = index
      ]_vars

\* the iterator pulled again after it completed a dump of several rows
C10_Witness ==
    state = "Completed" /\ idle = MaxIdle /\ NumRows >= 2 /\ options.skip > 0

----------------------------------------------------------------------------
(* C11: when a read or a skip of the byte source returns an error, the dump  *)
(* is aborted and that error is returned to the caller through the dump's  *)
(* result: the step in which the call fails writes no line, ends the dump  *)
(* with the read error as its result, and the byte source is not called    *)
(* again afterwards.                                                       *)

\* the failing call of the byte source has been made
ReadFailed == IsSome(read_fail) /\ Len(reads) >= Unwrap(read_fail)

C11_ReadErrorReturned ==
    [][ /\ (~ReadFailed /\ ReadFailed') =>
            /\ out' = out
            /\ pc' = "done"
            /\ result' = Some("ReadError")
        /\ ReadFailed => reads' = reads ]_vars

----------------------------------------------------------------------------
(* C12: for every row width W > 0, every grouping, spacing, base and row   *)
(* content, reading and rendering a row completes without failure: no step *)
(* of a dump from a byte source that never fails aborts the dump.          *)

C12_RenderingNeverFails == (read_fail = None) => pc # "panicked"

----------------------------------------------------------------------------
(* C13: with autoskip enabled, a full-width row becomes the elision        *)
(* candidate if and only if it is uniform: under Ungrouped all its bytes   *)
(* equal its first byte, under Grouped every chunk of the group's element  *)
(* size equals its first chunk.                                            *)

C13_CandidateIffUniform ==
    (pc = "loop" /\ options.autoskip /\ NumRows > 0) =>
        LET row == Row(NumRows)
        IN  (events[NumRows].kind = "Row" /\ Len(row.buffer) = Width) =>
                (elision_match = Some(row.buffer) <=> IsUniform(row))

----------------------------------------------------------------------------
(* C14: with autoskip enabled, every run of three or more consecutive      *)
(* byte-identical full-width rows is rendered as its first row, one '*'    *)
(* line and its last row, whatever the bytes of the rows are, under        *)
(* Ungrouped and under Grouped grouping.                                   *)

\* rows a..b are a maximal run of byte-identical full-width rows
IdenticalRun(a, b) ==
    /\ a <= b
    /\ \A k \in a..b : Len(Row(k).buffer) = Width /\ Row(k).buffer = Row(a).buffer
    /\ a > 1 => Row(a - 1).buffer # Row(a).buffer
    /\ b < NumRows => Row(b + 1).buffer # Row(a).buffer

C14_RepeatedRowsCollapsed ==
    (Done /\ options.autoskip) =>
        \A a \in 1..NumRows : \A b \in (a + 2)..NumRows :
            IdenticalRun(a, b) =>
                Rendering(a, b) = << LineOf(a), StarOut, LineOf(b) >>

----------------------------------------------------------------------------
(* The text of a written row line: index digits, ": ", byte field, ASCII   *)
(* field between two '|', line feed                                        *)

SpacingWidth(sp) ==
    CASE sp = "None" -> 0 [] sp = "Normal" -> 1 [] sp = "Wide" -> 2 [] sp = "UltraWide" -> 4

\* the number of characters of one encoded byte
CellWidth ==
    CASE options.base.kind = "Hex" -> 2
      [] options.base.kind = "Decimal" -> 3
      [] options.base.kind = "Octal" -> 3
      [] options.base.kind = "Binary" -> 8

Radix ==
    CASE options.base.kind = "Hex" -> 16
      [] options.base.kind = "Decimal" -> 10
      [] options.base.kind = "Octal" -> 8
      [] options.base.kind = "Binary" -> 2

\* the index digits of the line
IndexText(ln) == SubSeq(ln.text, 1, 2 * Len(ln.index))

\* the byte field: what lies between ": " and the first '|' of the ASCII field
ByteField(ln) == SubSeq(ln.text, 2 * Len(ln.index) + 3, Len(ln.text) - (Width + 3))

\* the ASCII field with its two delimiters
AsciiField(ln) == SubSeq(ln.text, Len(ln.text) - (Width + 2), Len(ln.text) - 1)

\* the spacing the specification puts after column c (counted from 0)
SpacingAfter(c) ==
    LET g == options.grouping
    IN  IF g.kind = "Ungrouped" THEN g.spacing
        ELSE IF c % element_count(g.group_size) = element_count(g.group_size) - 1
             THEN g.group_spacing ELSE g.byte_spacing

\* where the cell of column c (counted from 0) starts in the byte field
RECURSIVE CellStart(_)
CellStart(c) ==
    IF c = 0 THEN 1
    ELSE CellStart(c - 1) + CellWidth + SpacingWidth(SpacingAfter(c - 1))

Cell(ln, c) == SubSeq(ByteField(ln), CellStart(c), CellStart(c) + CellWidth - 1)

IsDigit(ch) == ch >= 48 /\ ch <= 57

\* the value of a digit character; a leading character counts as '0'
DigitValue(ch) ==
    IF IsDigit(ch) THEN ch - 48
    ELSE IF ch >= 65 /\ ch <= 70 THEN ch - 55
    ELSE IF ch >= 97 /\ ch <= 102 THEN ch - 87
    ELSE 0

RECURSIVE ParseDigits(_, _)
ParseDigits(cell, radix) ==
    IF Len(cell) = 0 THEN 0
    ELSE ParseDigits(SubSeq(cell, 1, Len(cell) - 1), radix) * radix
         + DigitValue(cell[Len(cell)])

\* the digit characters of the base in the configured case, and the leading character
IsCellChar(ch) ==
    \/ ch >= 48 /\ ch - 48 < Radix /\ ch <= 57
    \/ options.base.kind = "Hex" /\ options.uppercase /\ ch >= 65 /\ ch <= 70
    \/ options.base.kind = "Hex" /\ ~options.uppercase /\ ch >= 97 /\ ch <= 102
    \/ options.base.kind \in { "Decimal", "Octal" } /\ ch = lead_char(options.base.lzc)

RowLines == { p \in 1..Len(out) : ~out[p].star }

----------------------------------------------------------------------------
(* C15: the byte encoder emits a fixed number of characters per byte: two  *)
(* in hexadecimal, three in decimal and octal, eight in binary.  The cell  *)
(* of a byte is determined by the byte, the base, the case and the leading *)
(* character and reads back as the byte; the cell of a column without a    *)
(* byte is that many spaces, so the byte field has one length whatever the *)
(* bytes are.                                                              *)

C15_FixedWidthEncoding ==
    \A p \in RowLines :
        /\ Len(ByteField(out[p])) = CellStart(Width)
                + (IF SpacingAfter(Width - 1) = "None" THEN 1 ELSE 0) - 1
        /\ \A c \in 0..(Width - 1) :
              LET cell == Cell(out[p], c)
                  b == out[p].cols[c + 1]
              IN  /\ Len(cell) = CellWidth
                  /\ IF IsSome(b)
                     THEN /\ \A k \in 1..CellWidth : IsCellChar(cell[k])
                          /\ ParseDigits(cell, Radix) = Unwrap(b)
                     ELSE \A k \in 1..CellWidth : cell[k] = 32

\* a decimal row with a byte of three digits and a column without a byte
C15_Witness ==
    /\ Done /\ options.base.kind = "Decimal" /\ Len(out) = 1
    /\ out[1].cols[1] = Some(200) /\ out[1].cols[2] = None

----------------------------------------------------------------------------
(* C16: in base Decimal or Octal, with any leading character (space, zero, *)
(* underscore), the three characters of a byte are zero or more leading    *)
(* characters followed only by digits, so a leading character never comes  *)
(* after a digit, and with every leading character replaced by '0' they    *)
(* are the value of the byte in three zero-padded digits.                  *)

\* the cell with every leading character replaced by '0'
ZeroPadded(cell) ==
    [j \in 1..Len(cell) |-> IF cell[j] = lead_char(options.base.lzc) THEN 48 ELSE cell[j]]

C16_LeadingCharsThenDigits ==
    options.base.kind \in { "Decimal", "Octal" } =>
        \A p \in RowLines : \A c \in 0..(Width - 1) :
            IsSome(out[p].cols[c + 1]) =>
                LET cell == Cell(out[p], c)
                    lead == lead_char(options.base.lzc)
                IN  /\ \E k \in 0..3 :
                          /\ \A j \in 1..k : cell[j] = lead
                          /\ \A j \in (k + 1)..3 : IsDigit(cell[j])
                    /\ \A j \in 1..3 : IsDigit(ZeroPadded(cell)[j])
                    /\ ParseDigits(ZeroPadded(cell), Radix) = Unwrap(out[p].cols[c + 1])

----------------------------------------------------------------------------
(* C17: the ASCII field shows, for every column, the byte itself when it   *)
(* is an ASCII letter or digit, ASCII punctuation or the space, and '.'    *)
(* for every other byte, those of 0x80 and above included; a column        *)
(* without a byte shows a space; the field is exactly W characters between *)
(* two '|' and ends the line.                                              *)

IsAsciiAlphanumeric(ch) ==
    \/ ch >= 48 /\ ch <= 57
    \/ ch >= 65 /\ ch <= 90
    \/ ch >= 97 /\ ch <= 122

IsAsciiPunctuation(ch) ==
    \/ ch >= 33 /\ ch <= 47
    \/ ch >= 58 /\ ch <= 64
    \/ ch >= 91 /\ ch <= 96
    \/ ch >= 123 /\ ch <= 126

----------------------------------------------------------------------------
(* C18: in the byte field, column i is followed by the group spacing when  *)
(* i % group_size = group_size - 1 and by the byte spacing otherwise       *)
(* (Ungrouped: by the configured spacing after every column); when the     *)
(* spacing after the last column is None one space is appended, so the     *)
(* byte field always ends in a space before the ASCII field.               *)

C18_ColumnSpacing ==
    \A p \in RowLines :
        LET f == ByteField(out[p])
        IN  /\ \A c \in 0..(Width - 1) :
                  /\ IsSome(out[p].cols[c + 1]) =>
                        \A k \in 0..(CellWidth - 1) : f[CellStart(c) + k] # 32
                  /\ \A k \in 1..SpacingWidth(SpacingAfter(c)) :
                        f[CellStart(c) + CellWidth + k - 1] = 32
            /\ Len(f) = (CellStart(Width) - 1)
                          + (IF SpacingAfter(Width - 1) = "None" THEN 1 ELSE 0)
            /\ f[Len(f)] = 32

\* a full row of two groups of two bytes: no spacing after a group, one space inside
C18_Witness ==
    /\ Done /\ options.grouping.kind = "Grouped" /\ options.grouping.group_size = "Short"
    /\ options.grouping.byte_spacing = "Normal" /\ options.grouping.group_spacing = "None"
    /\ options.grouping.num_groups = 2 /\ options.base.kind = "Hex"
    /\ \E p \in RowLines :
          /\ \A c \in 1..Width : IsSome(out[p].cols[c])
          /\ Len(ByteField(out[p])) = 11

----------------------------------------------------------------------------
(* C19: under IndexOffset::Relative(o) the index printed for a row is its  *)
(* row index plus o.  Under IndexOffset::Absolute(o) the row that starts   *)
(* at the first byte of the sub-range prints o and every later row prints  *)
(* its row index - skip + o.  In both modes the index is written in        *)
(* hexadecimal, zero-padded to at least 8 digits, and followed by ": ".    *)

IsHexDigit(ch) ==
    \/ ch >= 48 /\ ch <= 57
    \/ ch >= 65 /\ ch <= 70
    \/ ch >= 97 /\ ch <= 102

\* the index the claim gives the row line at position p of the output
ExpectedIndex(p) ==
    IF options.index_offset.mode = "Relative"
    THEN out[p].row_index + options.index_offset.o
    ELSE IF p = SetMin(RowLines)
         THEN options.index_offset.o
         ELSE out[p].row_index - options.skip + options.index_offset.o

C19_PrintedIndex ==
    \A p \in RowLines :
        LET t == IndexText(out[p])
        IN  /\ Len(t) >= 8
            /\ \A k \in 1..Len(t) : IsHexDigit(t[k])
            /\ ParseDigits(t, 16) = ExpectedIndex(p)
            /\ SubSeq(out[p].text, Len(t) + 1, Len(t) + 2) = << 58, 32 >>

\* an absolute offset with letters among its digits, in lower case, on a
\* sub-range that starts inside a row, with a later row
C19_Witness ==
    /\ Done /\ ~options.uppercase /\ options.align
    /\ options.index_offset = Absolute(MaxHexOffset)
    /\ options.skip % Width # 0
    /\ Cardinality(RowLines) >= 2
    /\ \E k \in 1..8 : IndexText(out[1])[k] >= 97

----------------------------------------------------------------------------
(* C20: with FlushMode::AfterNLines(n), n >= 1, the sink is flushed after  *)
(* every n-th line written, and once more at the end of the dump exactly   *)
(* when written lines are still unflushed: every flush but possibly the    *)
(* last covers exactly n written lines, no flush covers zero lines, fewer  *)
(* than n lines are ever left unflushed and none when the dump has ended;  *)
(* for every input and option, autoskip included.                          *)

\* the number of lines written before the k-th flush, 0 for k = 0
FlushedAt(k) == IF k = 0 THEN 0 ELSE flushes[k]

C20_FlushEveryNLines ==
    (options.flush.mode = "AfterNLines" /\ options.flush.n >= 1) =>
        LET n == options.flush.n
        IN  /\ \A k \in 1..Len(flushes) :
                  /\ FlushedAt(k) - FlushedAt(k - 1) >= 1
                  /\ FlushedAt(k) - FlushedAt(k - 1) <= n
                  /\ (k < Len(flushes) \/ ~Done) => FlushedAt(k) - FlushedAt(k - 1) = n
            /\ Len(out) - FlushedAt(Len(flushes)) < n
            /\ Done => FlushedAt(Len(flushes)) = Len(out)

----------------------------------------------------------------------------
(* C21: with FlushMode::End the sink is flushed exactly once per           *)
(* successful dump, after the last line has been written, and never        *)
(* between lines: no flush before the dump has ended, and afterwards one   *)
(* flush that covers every line.                                           *)

C21_FlushOnceAtEnd ==
    options.flush.mode = "End" =>
        /\ ~Done => flushes = << >>
        /\ Done => (result = Some("Ok") /\ flushes = << Len(out) >>)

\* a dump of several lines, a '*' line among them, that has ended
C21_Witness ==
    /\ Done /\ options.flush.mode = "End"
    /\ Len(out) >= 3 /\ \E p \in 1..Len(out) : out[p].star

----------------------------------------------------------------------------
(* The byte sources under test *)

GS == "GroupedSliceByteReader"
GI == "GroupedIteratorReader"

\* the bytes the reader of type k has returned to its next_n calls, in order
RECURSIVE GotUpTo(_, _)
GotUpTo(k, j) == IF j = 0 THEN << >> ELSE GotUpTo(k, j - 1) \o calls[j].got[k]
Got(k) == GotUpTo(k, Len(calls))

\* the same for the instance that was skipped by the default skip_n
RECURSIVE DiscardedUpTo(_, _)
DiscardedUpTo(k, j) == IF j = 0 THEN << >> ELSE DiscardedUpTo(k, j - 1) \o calls[j].discarded[k]
Discarded(k) == DiscardedUpTo(k, Len(calls))

\* the byte width N of the elements
EltWidth == sources[GS].N

\* the bytes of element e (counted from 0), written from its value: byte j (counted
\* from 0) is digit N - 1 - j in base 256 when big-endian, digit j when little-endian
DigitOf(e, d) ==
    LET limb == elts[e + 1][(EltWidth \div 2) - (d \div 2)]
    IN  IF d % 2 = 0 THEN limb % 256 ELSE limb \div 256
ByteOf(e, j) == IF endianness = "Big" THEN DigitOf(e, EltWidth - 1 - j) ELSE DigitOf(e, j)

\* the byte stream s lays element e out at offsets e * N .. e * N + N - 1, as far as s goes
LaidOut(s) ==
    \A p \in 1..Len(s) : s[p] = ByteOf((p - 1) \div EltWidth, (p - 1) % EltWidth)

\* the reader of type k has ended: one of its reads returned less than was asked
Ended(k) == \E j \in 1..Len(calls) : calls[j].op = "next_n" /\ calls[j].ret[k] < calls[j].n

\* both grouped readers, read from the start, have yielded the same bytes, laid out
\* element by element, and end after the last element and not before
SameByteStream ==
    (pc = "sources" /\ \A j \in 1..Len(calls) : calls[j].op = "next_n") =>
        /\ ~sources[GS].panicked /\ ~sources[GI].panicked
        /\ Got(GS) = Got(GI)
        /\ Len(Got(GS)) <= Len(elts) * EltWidth
        /\ LaidOut(Got(GS))
        /\ \A k \in { GS, GI } : Ended(k) => Len(Got(k)) = Len(elts) * EltWidth

\* the line ln as the dump of the slice-backed reader prints it
SliceLine(ln) ==
    [ln EXCEPT !.index = index_field(ln.v_index, options, total_byte_hint(slice)),
               !.text = write_row_index_text(ln.row_index, options, total_byte_hint(slice))
                        \o SubSeq(ln.text, 2 * Len(ln.index) + 3, Len(ln.text))]

\* every line of the dump is the line as_hexd prints
SameDump == \A p \in 1..Len(out) : ~out[p].star => out[p] = SliceLine(out[p])

----------------------------------------------------------------------------
(* C22: for integers of byte width 2, 4, 8 and 16 and each endianness, the  *)
(* slice-backed and the iterator-backed grouped reader yield the same byte  *)
(* stream, element i at offsets i*N .. i*N+N-1 in the chosen byte order,    *)
(* ending after the last element; and the dumps of as_hexd and of into_hexd *)
(* are identical                                                            *)
C22_GroupedReadersAgree == SameByteStream /\ SameDump

\* the number of bytes of a source that has not been read yet
TotalBytes == Len(elts) * EltWidth

\* the call of skip_n made on the sources, if any: it is their first call
Skips == { j \in 1..Len(calls) : calls[j].op = "skip_n" }

\* skip_n of the reader of type k returned the number of bytes it skipped
ReturnsSkipped(k) ==
    \A j \in Skips : calls[j].ret[k] = Min(calls[j].n, TotalBytes)

----------------------------------------------------------------------------
(* C23: skip_n(n) of every provided byte source returns the number of bytes *)
(* actually skipped: n when at least n bytes remained, and otherwise the    *)
(* number of bytes that remained                                            *)
C23_SkipReturnsSkipped == \A k \in Kinds : ReturnsSkipped(k)

\* after its skip_n the reader of type k has not failed and has returned, read by
\* read, the bytes of the source whose first n bytes were read and discarded
SkipsLikeDiscarding(k) ==
    Skips # {} =>
        /\ ~sources[k].panicked
        /\ \A j \in 1..Len(calls) : calls[j].got[k] = calls[j].discarded[k]

----------------------------------------------------------------------------
(* C24: skip_n(n) on a fresh source of every provided type, then reading,   *)
(* yields without failure exactly the bytes the source yields after n bytes *)
(* were read and discarded (the default skip_n), also when n is a multiple  *)
(* of the element width of a grouped source or exceeds the source length    *)
C24_SkipThenRead == \A k \in Kinds : SkipsLikeDiscarding(k)

----------------------------------------------------------------------------
(* The reads of a dump of a sub-range *)

\* the reads the row iterator has made
NextNs == { k \in 1..Len(reads) : reads[k].op = "next_n" }

\* the bytes requested by the first k calls that are reads and satisfy the filter
RECURSIVE Requested(_, _)
Requested(k, nonEmptyOnly) ==
    IF k = 0 THEN 0
    ELSE Requested(k - 1, nonEmptyOnly)
         + (IF reads[k].op = "next_n" /\ (reads[k].got > 0 \/ ~nonEmptyOnly)
            THEN reads[k].n ELSE 0)

Limit == Unwrap(options.limit)
RangeLength == Limit - options.skip

\* ceil((limit - skip) / W)
RangeRows == (RangeLength + Width - 1) \div Width

\* no read covers a stream offset >= limit
ReadsBelowLimit == \A k \in NextNs : reads[k].at + reads[k].n <= Limit

\* the row iterator is Completed with its pull number RangeRows + 2 at the latest
\* (every pull that does not find it Completed makes one read)
CompletesInTime ==
    /\ Cardinality(NextNs) <= RangeRows + 2
    /\ Cardinality(NextNs) = RangeRows + 2 => state = "Completed"

----------------------------------------------------------------------------
(* C25 as stated: with a limit set, the bytes requested from the byte       *)
(* source after the initial skip never total more than limit - skip, no     *)
(* read covers a stream offset >= limit, and the row iterator is Completed  *)
(* after at most ceil((limit - skip) / W) + 2 pulls                         *)
C25_LimitBoundsRequests ==
    IsSome(options.limit) =>
        /\ Requested(Len(reads), FALSE) <= RangeLength
        /\ ReadsBelowLimit
        /\ CompletesInTime

\* C25 amended: with a limit set, the bytes requested from the byte source
\* after the initial skip by the reads that return at least one byte never
\* total more than limit - skip (a read that finds the source ended before
\* the limit requests bytes that were requested before), no read covers a
\* stream offset >= limit, and the row iterator is Completed after at most
\* ceil((limit - skip) / W) + 2 pulls, also when the source goes on beyond
\* the limit
C25_LimitBoundsReads ==
    IsSome(options.limit) =>
        /\ Requested(Len(reads), TRUE) <= RangeLength
        /\ ReadsBelowLimit
        /\ CompletesInTime

\* a sub-range that starts inside a row and ends before the source does, read
\* to its limit in the largest number of pulls
C25_Witness ==
    /\ IsSome(options.limit) /\ state = "Completed"
    /\ options.align /\ options.skip % Width # 0
    /\ Len(slice) > Limit
    /\ Requested(Len(reads), TRUE) = RangeLength
    /\ Cardinality(NextNs) = RangeRows + 2
    /\ RangeRows >= 2

----------------------------------------------------------------------------
(* C26: the row that ends an elided run is tested for uniformity on the     *)
(* same pull and, when it is a uniform full-width row, becomes the new      *)
(* elision candidate at once; so of two uniform runs of different content   *)
(* placed back to back each is collapsed, while a following run of only two *)
(* rows is printed in full                                                  *)

\* the lines of the maximal run a..b
RunLines(a, b) ==
    IF b = a THEN << LineOf(a) >>
    ELSE IF b = a + 1 THEN << LineOf(a), LineOf(b) >>
    ELSE << LineOf(a), StarOut, LineOf(b) >>

\* a collapsed run a..b is followed at once by the run b + 1 .. c
BackToBack(a, b, c) ==
    /\ a + 2 <= b /\ b < c
    /\ MaximalRun(a, b) /\ MaximalRun(b + 1, c)

\* this pull ends an elided run with a uniform row
EndsRunWithUniformRow ==
    /\ pc = "loop" /\ options.autoskip
    /\ NumRows > 0 /\ events[NumRows].kind = "Elided"
    /\ Len(events') = NumRows + 1
    /\ events'[NumRows + 1].kind = "Row"
    /\ IsUniform(events'[NumRows + 1].row)

C26_RunEndStartsNextRun ==
    /\ [][EndsRunWithUniformRow =>
            elision_match' = Some(events'[NumRows + 1].row.buffer)]_vars
    /\ [](Done /\ options.autoskip =>
            \A a \in 1..NumRows : \A b \in a..NumRows : \A c \in b..NumRows :
                BackToBack(a, b, c) =>
                    Rendering(a, c) = RunLines(a, b) \o RunLines(b + 1, c))

\* two collapsed runs back to back
C26_Witness ==
    /\ Done /\ options.autoskip
    /\ \E a \in 1..NumRows : \E b \in a..NumRows : \E c \in b..NumRows :
            BackToBack(a, b, c) /\ b + 3 <= c

\* a collapsed run followed by a run of two rows
C26_WitnessOfTwo ==
    /\ Done /\ options.autoskip
    /\ \E a \in 1..NumRows : \E b \in a..NumRows : \E c \in b..NumRows :
            BackToBack(a, b, c) /\ c = b + 2

----------------------------------------------------------------------------
(* C27: when a write or a flush of the sink returns an error the dump stops *)
(* at once: no further write or flush is made on the sink, no further row   *)
(* is pulled from the byte source, and exactly that error is passed to the  *)
(* sink's consume, whose result is the result of the dump                   *)

\* the dump returned what consume made of an error
Failed == IsSome(result) /\ Unwrap(result) # "Ok"

\* the call of the sink that returns Err has been made
SinkFailed == IsSome(sink_fail) /\ sink_calls >= Unwrap(sink_fail).at

C27_SinkErrorStopsDump ==
    /\ [](SinkFailed =>
            \* the failing call is the last call made on the sink, and the dump has
            \* ended with its error
            /\ sink_calls = Unwrap(sink_fail).at
            /\ Len(out) + Len(flushes) = Unwrap(sink_fail).at - 1
            /\ pc = "done"
            /\ result = Some(Unwrap(sink_fail).error))
    /\ [](Failed => SinkFailed)
    /\ [][SinkFailed => UNCHANGED << out, flushes, sink_calls, reads, events, result >>]_vars

\* the write of the row that closes an elided run fails, after the '*' line was written
C27_Witness ==
    /\ Failed /\ SinkFailed
    /\ Len(out) >= 2 /\ out[Len(out)].star
    /\ NumRows >= 4

----------------------------------------------------------------------------
(* C28: for the same input and the same options apart from autoskip, the    *)
(* output with autoskip enabled, its '*' lines deleted, is a subsequence    *)
(* (same lines, same order, same printed indices) of the output with        *)
(* autoskip disabled, and its first and last lines are the first and last   *)
(* lines of that output                                                     *)

\* the options of the dump with autoskip disabled
PlainOptions == [options EXCEPT !.autoskip = FALSE]

\* the lines of the dump with autoskip disabled, from the iterator state (ri, idx, st)
\* on: every pull yields a row until the iterator ends, and every row is written
RECURSIVE PlainLines(_, _, _)
PlainLines(ri, idx, st) ==
    LET p == IteratorNext(slice, PlainOptions, ri, idx, st, None)
    IN  IF ~IsSome(p.item) THEN << >>
        ELSE << with_line_feed(RowLine(Unwrap(p.item).row.row_index, Unwrap(p.item).row,
                                       PlainOptions, byte_hint)) >>
             \o PlainLines(p.rd_index, p.index, p.state)

PlainDump == PlainLines(0, 0, "NotStarted")

\* the output without its '*' lines
RECURSIVE WithoutStars(_)
WithoutStars(ls) ==
    IF ls = << >> THEN << >>
    ELSE (IF Head(ls).star THEN << >> ELSE << Head(ls) >>) \o WithoutStars(Tail(ls))

\* s is a subsequence of t
RECURSIVE IsSubsequence(_, _)
IsSubsequence(s, t) ==
    IF s = << >> THEN TRUE
    ELSE IF t = << >> THEN FALSE
    ELSE IF Head(s) = Head(t) THEN IsSubsequence(Tail(s), Tail(t))
    ELSE IsSubsequence(s, Tail(t))

C28_AutoskipSubsequence ==
    Done =>
        IF options.autoskip
        THEN /\ IsSubsequence(WithoutStars(out), PlainDump)
             /\ (out = << >>) <=> (PlainDump = << >>)
             /\ out # << >> =>
                    /\ out[1] = PlainDump[1]
                    /\ out[Len(out)] = PlainDump[Len(PlainDump)]
        ELSE out = PlainDump

\* a dump from inside a row in which a run was collapsed and a later row written
C28_Witness ==
    /\ Done /\ options.autoskip /\ options.skip > 0 /\ options.align
    /\ \E p \in 2..(Len(out) - 2) : out[p].star
    /\ Len(WithoutStars(out)) + 2 <= Len(PlainDump)

----------------------------------------------------------------------------
(* C29: with alignment enabled and autoskip disabled, the printed index of  *)
(* every row after the first is the printed index of the row before it plus *)
(* the row width W, in Relative and in Absolute index mode and for every    *)
(* skip: each printed index is the address of column 0 of its row           *)

\* the index printed on line p, read back from its digits
PrintedIndex(p) == ParseDigits(IndexText(out[p]), 16)

C29_IndexStepsByWidth ==
    (options.align /\ ~options.autoskip) =>
        \A p \in 2..Len(out) : PrintedIndex(p) = PrintedIndex(p - 1) + Width

----------------------------------------------------------------------------
(* C30: after every successful dump, in every flush mode (FlushMode::End    *)
(* and FlushMode::AfterNLines(n) for every n >= 0), the flush of the sink   *)
(* has been called after the last line written to it: no written line is    *)
(* left unflushed when the sink is consumed                                 *)
C30_LastLineFlushed ==
    (Done /\ result = Some("Ok") /\ out # << >>) =>
        /\ flushes # << >>
        /\ flushes[Len(flushes)] = Len(out)

====
